---- MODULE Spec2Model ----
(***************************************************************************)
(* The hash-chained audit ledger of pykg-nic: the blockchain_logs table,   *)
(* addBlockchainLog in its retry variant and in its plain variant,         *)
(* verifyChain, and the request handlers that produce (or fail to produce) *)
(* ledger entries.                                                         *)
(*                                                                         *)
(* Every database statement is one atomic step; the steps of different     *)
(* calls interleave freely.  SHA-256 is modelled as an ideal, collision    *)
(* free function of its message: sha256(m) is the text "H(" m ")".  The    *)
(* message itself is built exactly as the code builds it, by joining the   *)
(* fields with "|" after replacing null by the empty string.               *)
(***************************************************************************)
EXTENDS Integers, Sequences, FiniteSets, TLC

VARIABLES
    ledger,        \* the rows of blockchain_logs
    seq,           \* sqlite_sequence of blockchain_logs (AUTOINCREMENT)
    now,           \* the last reading of the wall clock, in milliseconds
    pc,            \* where each call is
    attempt,       \* the loop variable of addBlockchainLog
    params,        \* the AddLogParams of each call
    timestamp,     \* const timestamp
    prevHash,      \* const prevHash
    blockHash,     \* const blockHash
    insertedBlock, \* const insertedBlock: {} is null, {row} a row
    ret,           \* what the call returned: {} while it runs
    faults,        \* store errors raised so far
    wrote,         \* history: <<id, call>> for every INSERT that succeeded
    inserts,       \* history: INSERT statements each call has issued
    first,         \* history: the prevHash read by, and the end of, each call's first attempt
    overlapped,    \* history: the calls that were in flight together with a call
    tampered,      \* history: the out-of-band write made to the table, if any
    request,       \* the admin request each handler is serving
    response,      \* the response each handler has sent: {} while it runs
    db,            \* the business tables: domains, appeals, users, settings
    auditLogs,     \* the number of rows of audit_logs
    hashIn,        \* two argument lists for calculateBlockHash, and whose it is
    hashOut,       \* the two hashes computed for them: <<>> before the calls
    report,        \* what verifyChain last returned: {} before any call
    page,          \* what getLogs last returned: {} before any call
    repair,        \* the repair request being served
    runs,          \* history: the repair requests served, in order
    corrupted      \* history: the ids of the rows corrupted out-of-band

vars == <<ledger, seq, now, pc, attempt, params, timestamp, prevHash, blockHash,
          insertedBlock, ret, faults, wrote, inserts, first, overlapped,
          tampered, request, response, db, auditLogs, hashIn, hashOut, report,
          page, repair, runs, corrupted>>

locals == <<params, timestamp, prevHash, blockHash, insertedBlock>>

\* What the request handlers add to the state
prod == <<request, response, db, auditLogs>>

\* What the hash engine on its own, the readers and the repair tool add
maint == <<hashIn, hashOut, report, page, repair, runs, corrupted>>

----------------------------------------------------------------------------
(* Bounds of the model *)

NumCalls == 3
MaxClock == 1

Procs == 1..NumCalls

(* Program constants *)

MAX_RETRIES == 5

\* The store errors of one run: enough to fail every attempt of one call
MaxFaults == MAX_RETRIES

----------------------------------------------------------------------------
(* Values *)

\* SQL NULL / JavaScript null or undefined.  No real string of the model is
\* this text; the empty string "" is a different value.
Null == "<null>"

\* x ?? d
Coalesce(x, d) == IF x = Null THEN d ELSE x

\* JavaScript truthiness of a string-or-null value: null and "" are falsy.
Truthy(s) == s # Null /\ s # ""

\* new Date().toISOString(): the clock reading as text
ToISOString(t) == "2024-01-01T00:00:00.00" \o ToString(t) \o "Z"

\* JSON.stringify of an object given as a sequence of <<key, value>> pairs
RECURSIVE JSONMembers(_)
JSONMembers(kvs) ==
    IF kvs = <<>> THEN ""
    ELSE "\"" \o kvs[1][1] \o "\":\"" \o kvs[1][2] \o "\""
         \o (IF Len(kvs) > 1 THEN "," ELSE "") \o JSONMembers(Tail(kvs))

JSONStringify(kvs) == "{" \o JSONMembers(kvs) \o "}"

\* The events the callers pass.  details is an object or null: isNull tells
\* which, entries holds the object's members.
Events ==
    { [action |-> "domain_suspend", actorName |-> "admin", targetType |-> "domain",
       targetName |-> "a.py.kg", result |-> Null,
       details |-> [isNull |-> FALSE, entries |-> << <<"reason", "spam">> >>]],
      [action |-> "appeal_submit", actorName |-> Null, targetType |-> Null,
       targetName |-> Null, result |-> Null,
       details |-> [isNull |-> TRUE, entries |-> <<>>]] }

NoParams == [action |-> "", actorName |-> Null, targetType |-> Null,
             targetName |-> Null, result |-> Null,
             details |-> [isNull |-> TRUE, entries |-> <<>>]]

----------------------------------------------------------------------------
(* Hash Engine *)

sha256(message) == "H(" \o message \o ")"

MutCalculateBlockHashNoPrev(prevHash_, action, actorName, targetType, targetName, result, details, timestamp_) ==
    sha256(action \o "|" \o Coalesce(actorName, "") \o "|"
           \o Coalesce(targetType, "") \o "|" \o Coalesce(targetName, "") \o "|"
           \o Coalesce(result, "") \o "|" \o Coalesce(details, "") \o "|"
           \o timestamp_)

calculateBlockHash(prevHash_, action, actorName, targetType, targetName, result, details, timestamp_) ==
    sha256(prevHash_ \o "|" \o action \o "|" \o Coalesce(actorName, "") \o "|"
           \o Coalesce(targetType, "") \o "|" \o Coalesce(targetName, "") \o "|"
           \o Coalesce(result, "") \o "|" \o Coalesce(details, "") \o "|"
           \o timestamp_)

HashOfRow(block) ==
    calculateBlockHash(block.prev_hash, block.action, block.actor_name,
                       block.target_type, block.target_name, block.result,
                       block.details, block.timestamp)

----------------------------------------------------------------------------
(* Ledger Store: the blockchain_logs table *)

Ids(rows) == {r.id : r \in rows}

RowsWithId(rows, id) == {r \in rows : r.id = id}

RowsWithHash(rows, h) == {r \in rows : r.block_hash = h}

MaxId(rows) == CHOOSE i \in Ids(rows) : \A j \in Ids(rows) : j <= i

LastRow(rows) == CHOOSE r \in rows : r.id = MaxId(rows)

\* The rows in ascending id order (ORDER BY id ASC)
RECURSIVE OrderById(_)
OrderById(rows) ==
    IF rows = {} THEN <<>>
    ELSE LET last == LastRow(rows) IN Append(OrderById(rows \ {last}), last)

\* id INTEGER PRIMARY KEY AUTOINCREMENT: one more than the largest id the
\* table has ever held, so the id of a deleted row is not used again.
NextId(rows, s) ==
    IF rows = {} THEN s + 1
    ELSE IF MaxId(rows) > s THEN MaxId(rows) + 1 ELSE s + 1

\* block_hash TEXT NOT NULL UNIQUE
MutUniqueViolationNever(rows, h) == FALSE

UniqueViolation(rows, h) == RowsWithHash(rows, h) # {}

\* SELECT block_hash FROM blockchain_logs ORDER BY id DESC LIMIT 1,
\* then result?.block_hash || '0'
MutGetLatestBlockHashGenesis(rows) == "0"

getLatestBlockHash(rows) ==
    IF rows = {} THEN "0"
    ELSE IF Truthy(LastRow(rows).block_hash) THEN LastRow(rows).block_hash
    ELSE "0"

----------------------------------------------------------------------------
(* Chain Verifier *)

\* A walk that stops after the entry it starts at
MutVerifyFromOneEntry(results, i, expectedPrevHash) ==
    IF i > Len(results)
    THEN [valid |-> TRUE, totalBlocks |-> Len(results), invalidAt |-> 0]
    ELSE IF results[i].prev_hash # expectedPrevHash \/ HashOfRow(results[i]) # results[i].block_hash
    THEN [valid |-> FALSE, totalBlocks |-> Len(results), invalidAt |-> results[i].id]
    ELSE [valid |-> TRUE, totalBlocks |-> Len(results), invalidAt |-> 0]

\* The loop of verifyChain over results[i..], with the running expectedPrevHash.
\* invalidAt = 0 stands for an absent invalidAt.
RECURSIVE VerifyFrom(_, _, _)
VerifyFrom(results, i, expectedPrevHash) ==
    IF i > Len(results)
    THEN [valid |-> TRUE, totalBlocks |-> Len(results), invalidAt |-> 0]
    ELSE LET block == results[i] IN
         IF block.prev_hash # expectedPrevHash
         THEN [valid |-> FALSE, totalBlocks |-> Len(results), invalidAt |-> block.id]
         ELSE IF HashOfRow(block) # block.block_hash
         THEN [valid |-> FALSE, totalBlocks |-> Len(results), invalidAt |-> block.id]
         ELSE VerifyFrom(results, i + 1, block.block_hash)

verifyChain(rows) ==
    IF rows = {}
    THEN [valid |-> TRUE, totalBlocks |-> 0, invalidAt |-> 0]
    ELSE VerifyFrom(OrderById(rows), 1, "0")

----------------------------------------------------------------------------
(* Append Coordinator: addBlockchainLog with retry *)

Success(h) == [success |-> TRUE, blockHash |-> h, error |-> ""]
Failure(msg) == [success |-> FALSE, blockHash |-> "", error |-> msg]

InFlight == {q \in Procs : pc[q] \notin {"idle", "done"}}

\* const detailsStr = params.details ? JSON.stringify(params.details) : null
DetailsStr(p) ==
    IF params[p].details.isNull THEN Null
    ELSE JSONStringify(params[p].details.entries)

\* const resultStr = params.result ?? 'success'
ResultStr(p) == Coalesce(params[p].result, "success")

\* The row the INSERT of call p binds.
NewRow(p) ==
    [id |-> NextId(ledger, seq),
     block_hash |-> blockHash[p],
     prev_hash |-> prevHash[p],
     action |-> params[p].action,
     actor_name |-> params[p].actorName,
     target_type |-> params[p].targetType,
     target_name |-> params[p].targetName,
     result |-> ResultStr(p),
     details |-> DetailsStr(p),
     timestamp |-> timestamp[p]]

\* History of the first attempt of a call: the prevHash it read and how it
\* ended, "ok", "race" (rolled back), "unique" (INSERT rejected), "verify" or
\* "store" (a store error).
Ended(p, how) ==
    first' = [first EXCEPT ![p] =
                IF attempt[p] = 0 THEN {[prev |-> prevHash[p], how |-> how]} ELSE @]

\* The catch block: on the last attempt return the failure, otherwise wait and
\* go round the loop again.
MutCatchAlwaysRetry(p, msg) ==
    /\ attempt' = [attempt EXCEPT ![p] = @ + 1]
    /\ pc' = [pc EXCEPT ![p] = "fetch"]
    /\ UNCHANGED ret

Catch(p, msg) ==
    IF attempt[p] = MAX_RETRIES - 1
    THEN /\ ret' = [ret EXCEPT ![p] = {Failure(msg)}]
         /\ pc' = [pc EXCEPT ![p] = "done"]
         /\ UNCHANGED attempt
    ELSE /\ attempt' = [attempt EXCEPT ![p] = @ + 1]
         /\ pc' = [pc EXCEPT ![p] = "fetch"]
         /\ UNCHANGED ret

\* return { success: true, blockHash }
ReturnSuccess(p) ==
    /\ ret' = [ret EXCEPT ![p] = {Success(blockHash[p])}]
    /\ pc' = [pc EXCEPT ![p] = "done"]
    /\ Ended(p, "ok")
    /\ UNCHANGED attempt

\* A request handler calls addBlockchainLog(db, params): for (let attempt = 0; ...
\* The calls are numbered in the order in which they start.
Call(p) ==
    /\ pc[p] = "idle"
    /\ \A q \in Procs : q < p => pc[q] # "idle"
    /\ \E e \in Events : params' = [params EXCEPT ![p] = e]
    /\ pc' = [pc EXCEPT ![p] = "fetch"]
    /\ attempt' = [attempt EXCEPT ![p] = 0]
    /\ overlapped' = [q \in Procs |->
                        IF q = p THEN InFlight
                        ELSE IF q \in InFlight THEN overlapped[q] \cup {p}
                        ELSE overlapped[q]]
    /\ UNCHANGED <<maint, prod, ledger, seq, now, timestamp, prevHash, blockHash, insertedBlock,
                   ret, faults, wrote, inserts, first, tampered>>

\* new Date(): the clock is read here and nowhere else, so time is seen to pass
\* only here; a reading is never earlier than the one before it.
ClockReadings == {t \in {now, now + 1} : t <= MaxClock}

\* timestamp, getLatestBlockHash (one SELECT) and calculateBlockHash
FetchLast(p) ==
    /\ pc[p] = "fetch"
    /\ \E t \in ClockReadings : now' = t
    /\ timestamp' = [timestamp EXCEPT ![p] = ToISOString(now')]
    /\ prevHash' = [prevHash EXCEPT ![p] = getLatestBlockHash(ledger)]
    /\ blockHash' = [blockHash EXCEPT ![p] =
          calculateBlockHash(prevHash'[p], params[p].action, params[p].actorName,
                             params[p].targetType, params[p].targetName,
                             ResultStr(p), DetailsStr(p), timestamp'[p])]
    /\ insertedBlock' = [insertedBlock EXCEPT ![p] = {}]
    /\ pc' = [pc EXCEPT ![p] = "insert"]
    /\ UNCHANGED <<maint, prod, ledger, seq, attempt, params, ret, faults, wrote, inserts,
                   first, overlapped, tampered>>

\* INSERT INTO blockchain_logs ...: rejected when block_hash is already there
Insert(p) ==
    /\ pc[p] = "insert"
    /\ inserts' = [inserts EXCEPT ![p] = @ + 1]
    /\ IF UniqueViolation(ledger, blockHash[p])
       THEN /\ Catch(p, "UNIQUE constraint failed: blockchain_logs.block_hash")
            /\ Ended(p, "unique")
            /\ UNCHANGED <<ledger, seq, wrote>>
       ELSE /\ ledger' = ledger \cup {NewRow(p)}
            /\ seq' = NewRow(p).id
            /\ wrote' = wrote \cup {<<NewRow(p).id, p>>}
            /\ pc' = [pc EXCEPT ![p] = "selectInserted"]
            /\ UNCHANGED <<attempt, ret, first>>
    /\ UNCHANGED <<maint, prod, now, locals, faults, overlapped, tampered>>

\* SELECT * FROM blockchain_logs WHERE block_hash = ?
SelectInserted(p) ==
    /\ pc[p] = "selectInserted"
    /\ LET found == RowsWithHash(ledger, blockHash[p]) IN
       /\ insertedBlock' = [insertedBlock EXCEPT ![p] = found]
       /\ IF found = {}
          THEN /\ Catch(p, "Failed to verify inserted block")
               /\ Ended(p, "verify")
          ELSE IF \E b \in found : b.id > 1
          THEN /\ pc' = [pc EXCEPT ![p] = "selectPrev"]
               /\ UNCHANGED <<attempt, ret, first>>
          ELSE ReturnSuccess(p)
    /\ UNCHANGED <<maint, prod, ledger, seq, now, params, timestamp, prevHash, blockHash,
                   faults, wrote, inserts, overlapped, tampered>>

\* actualPrevBlock && actualPrevBlock.block_hash !== insertedBlock.prev_hash
MutRaceDetectedNever(inserted, actualPrevBlock) == FALSE

RaceDetected(inserted, actualPrevBlock) ==
    \E a \in actualPrevBlock : \E b \in inserted : a.block_hash # b.prev_hash

\* SELECT * FROM blockchain_logs WHERE id = insertedBlock.id - 1, and the test
SelectPrev(p) ==
    /\ pc[p] = "selectPrev"
    /\ LET actualPrevBlock ==
             UNION {RowsWithId(ledger, b.id - 1) : b \in insertedBlock[p]} IN
       IF RaceDetected(insertedBlock[p], actualPrevBlock)
       THEN /\ pc' = [pc EXCEPT ![p] = "delete"]
            /\ UNCHANGED <<attempt, ret, first>>
       ELSE ReturnSuccess(p)
    /\ UNCHANGED <<maint, prod, ledger, seq, now, locals, faults, wrote, inserts, overlapped,
                   tampered>>

\* A rollback that deletes the row before the inserted one
MutDeletePrevious(p) ==
    /\ pc[p] = "delete"
    /\ ledger' = {r \in ledger : \A b \in insertedBlock[p] : r.id # b.id - 1}
    /\ Catch(p, "Max retries reached due to race conditions")
    /\ Ended(p, "race")
    /\ UNCHANGED <<maint, prod, seq, now, locals, faults, wrote, inserts, overlapped, tampered>>

\* DELETE FROM blockchain_logs WHERE id = ?, then continue or throw
Delete(p) ==
    /\ pc[p] = "delete"
    /\ ledger' = {r \in ledger : \A b \in insertedBlock[p] : r.id # b.id}
    /\ Catch(p, "Max retries reached due to race conditions")
    /\ Ended(p, "race")
    /\ UNCHANGED <<maint, prod, seq, now, locals, faults, wrote, inserts, overlapped, tampered>>

\* A statement of the call fails for an infrastructure reason: it throws and
\* has no effect on the table.
StoreError(p) ==
    /\ pc[p] \in {"fetch", "insert", "selectInserted", "selectPrev", "delete"}
    /\ faults < MaxFaults
    /\ faults' = faults + 1
    /\ inserts' = [inserts EXCEPT ![p] = IF pc[p] = "insert" THEN @ + 1 ELSE @]
    /\ Catch(p, "D1_ERROR: storage operation failed")
    /\ Ended(p, "store")
    /\ UNCHANGED <<maint, prod, ledger, seq, now, locals, wrote, overlapped, tampered>>

----------------------------------------------------------------------------
(* Event Producers: the admin request handlers, and the addBlockchainLog   *)
(* of functions/lib/blockchain.ts, which is the one they import            *)

\* calculateBlockHash of functions/lib/blockchain.ts: seven fields
Plain_calculateBlockHash(prevHash_, action, actorName, targetType, targetName, details, timestamp_) ==
    sha256(prevHash_ \o "|" \o action \o "|" \o Coalesce(actorName, "") \o "|"
           \o Coalesce(targetType, "") \o "|" \o Coalesce(targetName, "") \o "|"
           \o Coalesce(details, "") \o "|" \o timestamp_)

Plain_HashOfRow(block) ==
    Plain_calculateBlockHash(block.prev_hash, block.action, block.actor_name,
                             block.target_type, block.target_name, block.details,
                             block.timestamp)

\* A walk that compares each recomputed hash and no prev_hash
MutPlainVerifyFromHashOnly(results, i, expectedPrevHash) ==
    IF \E k \in i..Len(results) : Plain_HashOfRow(results[k]) # results[k].block_hash
    THEN [valid |-> FALSE, totalBlocks |-> Len(results),
          invalidAt |-> results[CHOOSE k \in i..Len(results) :
                                   Plain_HashOfRow(results[k]) # results[k].block_hash].id]
    ELSE [valid |-> TRUE, totalBlocks |-> Len(results), invalidAt |-> 0]

\* verifyChain of functions/lib/blockchain.ts: the same loop over the seven
\* fields
RECURSIVE Plain_VerifyFrom(_, _, _)
Plain_VerifyFrom(results, i, expectedPrevHash) ==
    IF i > Len(results)
    THEN [valid |-> TRUE, totalBlocks |-> Len(results), invalidAt |-> 0]
    ELSE LET block == results[i] IN
         IF block.prev_hash # expectedPrevHash
         THEN [valid |-> FALSE, totalBlocks |-> Len(results), invalidAt |-> block.id]
         ELSE IF Plain_HashOfRow(block) # block.block_hash
         THEN [valid |-> FALSE, totalBlocks |-> Len(results), invalidAt |-> block.id]
         ELSE Plain_VerifyFrom(results, i + 1, block.block_hash)

Plain_verifyChain(rows) ==
    IF rows = {}
    THEN [valid |-> TRUE, totalBlocks |-> 0, invalidAt |-> 0]
    ELSE Plain_VerifyFrom(OrderById(rows), 1, "0")

\* The request bodies: the handler they reach and the action they name
Requests ==
    {[handler |-> "domains", action |-> a] : a \in {"suspend", "activate", "delete"}}
    \cup {[handler |-> "appeals", action |-> a] : a \in {"approve", "reject"}}
    \cup {[handler |-> "users", action |-> a] :
             a \in {"ban", "unban", "set_admin", "remove_admin"}}
    \cup {[handler |-> "settings", action |-> "require_review"]}

NoRequest == [handler |-> "", action |-> ""]

successResponse == [status |-> 200, success |-> TRUE]

errorResponse(status) == [status |-> status, success |-> FALSE]

\* BlockchainActions
BlockchainActions(r) ==
    IF r.handler = "domains" THEN "domain_" \o r.action ELSE "appeal_" \o r.action

\* The handler returns a response
Reply(p, r) ==
    /\ response' = [response EXCEPT ![p] = {r}]
    /\ pc' = [pc EXCEPT ![p] = "done"]

\* The AddLogParams a handler passes, and the step into addBlockchainLog
CallPlain(p, detailsKey, detailsValue) ==
    /\ params' = [params EXCEPT ![p] =
          [action |-> BlockchainActions(request[p]), actorName |-> "admin",
           targetType |-> "domain", targetName |-> "a.py.kg", result |-> Null,
           details |-> [isNull |-> FALSE,
                        entries |-> << <<detailsKey, detailsValue>> >>]]]
    /\ pc' = [pc EXCEPT ![p] = "plainFetch"]
    /\ UNCHANGED response

\* A request reaches a handler.  The requests are numbered in the order in
\* which they arrive.
Receive(p) ==
    /\ pc[p] = "idle"
    /\ \A q \in Procs : q < p => pc[q] # "idle"
    /\ \E r \in Requests : request' = [request EXCEPT ![p] = r]
    /\ pc' = [pc EXCEPT ![p] = "handle"]
    /\ UNCHANGED <<maint, ledger, seq, now, attempt, locals, ret, faults, wrote, inserts,
                   first, overlapped, tampered, response, db, auditLogs>>

\* POST /api/admin/domains: the domain row, the switch on the action, the
\* audit_logs row, then the ledger call
DomainsPost(p) ==
    /\ pc[p] = "handle"
    /\ request[p].handler = "domains"
    /\ IF db.domain = "absent"
       THEN /\ Reply(p, errorResponse(404))
            /\ UNCHANGED <<db, auditLogs, params>>
       ELSE /\ db' = CASE request[p].action = "suspend" ->
                            [db EXCEPT !.domain = "suspended"]
                       [] request[p].action = "activate" ->
                            [db EXCEPT !.domain = "active"]
                       [] request[p].action = "delete" ->
                            [db EXCEPT !.domain = "absent", !.appeal = "absent"]
            /\ auditLogs' = auditLogs + 1
            /\ CallPlain(p, "reason", "spam")
    /\ UNCHANGED <<maint, ledger, seq, now, attempt, timestamp, prevHash, blockHash,
                   insertedBlock, ret, faults, wrote, inserts, first, overlapped,
                   tampered, request>>

\* POST /api/admin/appeals: the appeal row, approve or reject, then the
\* ledger call
AppealsPost(p) ==
    /\ pc[p] = "handle"
    /\ request[p].handler = "appeals"
    /\ IF db.appeal = "absent"
       THEN /\ Reply(p, errorResponse(404))
            /\ UNCHANGED <<db, params>>
       ELSE IF db.appeal # "pending"
       THEN /\ Reply(p, errorResponse(400))
            /\ UNCHANGED <<db, params>>
       ELSE /\ db' = IF request[p].action = "approve"
                     THEN [db EXCEPT !.domain = "active", !.appeal = "approved"]
                     ELSE [db EXCEPT !.appeal = "rejected"]
            /\ CallPlain(p, "admin_note", "reviewed")
    /\ UNCHANGED <<maint, ledger, seq, now, attempt, timestamp, prevHash, blockHash,
                   insertedBlock, ret, faults, wrote, inserts, first, overlapped,
                   tampered, request, auditLogs>>

\* POST /api/admin/users: the switch on the action, the audit_logs row, and
\* the success response
UsersPost(p) ==
    /\ pc[p] = "handle"
    /\ request[p].handler = "users"
    /\ db' = CASE request[p].action = "ban" -> [db EXCEPT !.is_banned = TRUE]
               [] request[p].action = "unban" -> [db EXCEPT !.is_banned = FALSE]
               [] request[p].action = "set_admin" -> [db EXCEPT !.is_admin = TRUE]
               [] request[p].action = "remove_admin" -> [db EXCEPT !.is_admin = FALSE]
    /\ auditLogs' = auditLogs + 1
    /\ Reply(p, successResponse)
    /\ UNCHANGED <<maint, ledger, seq, now, attempt, locals, ret, faults, wrote, inserts,
                   first, overlapped, tampered, request>>

\* PUT /api/admin/settings: setSetting, the audit_logs row, and the success
\* response
SettingsPut(p) ==
    /\ pc[p] = "handle"
    /\ request[p].handler = "settings"
    /\ db' = [db EXCEPT !.require_review = "true"]
    /\ auditLogs' = auditLogs + 1
    /\ Reply(p, successResponse)
    /\ UNCHANGED <<maint, ledger, seq, now, attempt, locals, ret, faults, wrote, inserts,
                   first, overlapped, tampered, request>>

\* addBlockchainLog of functions/lib/blockchain.ts: timestamp,
\* getLatestBlockHash and calculateBlockHash
PlainFetch(p) ==
    /\ pc[p] = "plainFetch"
    /\ \E t \in ClockReadings : now' = t
    /\ timestamp' = [timestamp EXCEPT ![p] = ToISOString(now')]
    /\ prevHash' = [prevHash EXCEPT ![p] = getLatestBlockHash(ledger)]
    /\ blockHash' = [blockHash EXCEPT ![p] =
          Plain_calculateBlockHash(prevHash'[p], params[p].action,
                                   params[p].actorName, params[p].targetType,
                                   params[p].targetName, DetailsStr(p),
                                   timestamp'[p])]
    /\ pc' = [pc EXCEPT ![p] = "plainInsert"]
    /\ UNCHANGED <<maint, ledger, seq, attempt, params, insertedBlock, ret, faults, wrote,
                   inserts, first, overlapped, tampered, prod>>

\* Its INSERT, which names no result column, and its two returns: success,
\* or from the catch block the failure
PlainInsert(p) ==
    /\ pc[p] = "plainInsert"
    /\ inserts' = [inserts EXCEPT ![p] = @ + 1]
    /\ IF UniqueViolation(ledger, blockHash[p])
       THEN /\ ret' = [ret EXCEPT ![p] =
                 {Failure("UNIQUE constraint failed: blockchain_logs.block_hash")}]
            /\ UNCHANGED <<ledger, seq, wrote>>
       ELSE /\ ledger' = ledger \cup {[NewRow(p) EXCEPT !.result = Null]}
            /\ seq' = NewRow(p).id
            /\ wrote' = wrote \cup {<<NewRow(p).id, p>>}
            /\ ret' = [ret EXCEPT ![p] = {Success(blockHash[p])}]
    /\ pc' = [pc EXCEPT ![p] = "respond"]
    /\ UNCHANGED <<maint, now, attempt, locals, faults, first, overlapped, tampered, prod>>

\* After await addBlockchainLog(...), whose value is not looked at:
\* return successResponse(...)
Respond(p) ==
    /\ pc[p] = "respond"
    /\ Reply(p, successResponse)
    /\ UNCHANGED <<maint, ledger, seq, now, attempt, locals, ret, faults, wrote, inserts,
                   first, overlapped, tampered, request, db, auditLogs>>

\* A statement fails for an infrastructure reason.  Inside addBlockchainLog
\* its catch block returns the failure; in the handler, where it is taken at
\* the first statement, the handler's catch block answers 500.
ProdStoreError(p) ==
    /\ pc[p] \in {"handle", "plainFetch", "plainInsert"}
    /\ faults < MaxFaults
    /\ faults' = faults + 1
    /\ IF pc[p] = "handle"
       THEN /\ Reply(p, errorResponse(500))
            /\ UNCHANGED ret
       ELSE /\ ret' = [ret EXCEPT ![p] = {Failure("D1_ERROR: storage operation failed")}]
            /\ pc' = [pc EXCEPT ![p] = "respond"]
            /\ UNCHANGED response
    /\ inserts' = [inserts EXCEPT ![p] = IF pc[p] = "plainInsert" THEN @ + 1 ELSE @]
    /\ UNCHANGED <<maint, ledger, seq, now, attempt, locals, wrote, first, overlapped,
                   tampered, request, db, auditLogs>>

----------------------------------------------------------------------------
(* The Hash Engine on its own *)

NoHashIn == [variant |-> "", a |-> <<>>, b |-> <<>>]

\* Argument values: the fields that may be null, and those that may not
NullableArgs == {Null, "", "x|y"}

StringArgs == {"a", "b"}

\* The argument lists of calculateBlockHash in the retry variant (eight
\* arguments) and in the plain variant (seven)
HashArgs(variant) ==
    IF variant = "retry"
    THEN {<<p_, a_, n1, n2, n3, r_, d_, t_>> :
             p_ \in StringArgs, a_ \in StringArgs, n1 \in NullableArgs,
             n2 \in NullableArgs, n3 \in NullableArgs, r_ \in NullableArgs,
             d_ \in NullableArgs, t_ \in StringArgs}
    ELSE {<<p_, a_, n1, n2, n3, d_, t_>> :
             p_ \in StringArgs, a_ \in StringArgs, n1 \in NullableArgs,
             n2 \in NullableArgs, n3 \in NullableArgs, d_ \in NullableArgs,
             t_ \in StringArgs}

\* The positions at which two argument lists of the same length differ
DiffersAt(a, b) == {i \in 1..Len(a) : a[i] # b[i]}

\* calculateBlockHash of either file applied to an argument list
ApplyHash(variant, a) ==
    IF variant = "retry"
    THEN calculateBlockHash(a[1], a[2], a[3], a[4], a[5], a[6], a[7], a[8])
    ELSE Plain_calculateBlockHash(a[1], a[2], a[3], a[4], a[5], a[6], a[7])

\* Two calls of calculateBlockHash
ComputeHashes ==
    /\ hashIn # NoHashIn
    /\ hashOut = <<>>
    /\ hashOut' = <<ApplyHash(hashIn.variant, hashIn.a),
                    ApplyHash(hashIn.variant, hashIn.b),
                    ApplyHash(hashIn.variant, hashIn.a)>>
    /\ UNCHANGED <<ledger, seq, now, pc, attempt, locals, ret, faults, wrote, inserts,
                   first, overlapped, tampered, prod, hashIn, report, page, repair,
                   runs, corrupted>>

----------------------------------------------------------------------------
(* Readers: getLogs and GET /api/logs *)

DEFAULT_LIMIT == 50

MAX_LIMIT == 100

Min(a, b) == IF a < b THEN a ELSE b

\* The rows in descending id order (ORDER BY id DESC)
RECURSIVE OrderByIdDesc(_)
OrderByIdDesc(rows) ==
    IF rows = {} THEN <<>>
    ELSE LET last == LastRow(rows) IN <<last>> \o OrderByIdDesc(rows \ {last})

\* The query strings of GET /api/logs: limit and offset as parseInt gives
\* them, action and target_type as given or undefined, and verify
LogOptions ==
    [limit : {-1, 0, 1, 2}, offset : {0, 1}, action : {Null, "appeal_submit"},
     targetType : {Null, "domain"}, verify : BOOLEAN]

\* The options a caller of getLogs passes
GetLogsOptions ==
    [limit : {-1, 0, 1, 2, 2 * MAX_LIMIT}, offset : {0, 1},
     action : {Null, "", "appeal_submit"}, actorName : {Null, "admin"},
     targetType : {Null, "domain"}]

\* The rows the statement's LIMIT ? OFFSET ? keeps of its ordered results: a
\* negative LIMIT is no upper bound
LimitOffset(results, limit, offset) ==
    SubSeq(results, offset + 1,
           IF limit < 0 THEN Len(results) ELSE Min(offset + limit, Len(results)))

\* getLogs: the WHERE clause, ORDER BY id DESC LIMIT ? OFFSET ?, and the count
getLogs(rows, options) ==
    LET limit == Min(IF options.limit # 0 THEN options.limit ELSE DEFAULT_LIMIT,
                     MAX_LIMIT)
        offset == options.offset
        matching == {r \in rows :
                        /\ Truthy(options.action) => r.action = options.action
                        /\ Truthy(options.actorName) => r.actor_name = options.actorName
                        /\ Truthy(options.targetType) => r.target_type = options.targetType}
        results == OrderByIdDesc(matching)
    IN [logs |-> LimitOffset(results, limit, offset),
        total |-> Cardinality(matching)]

\* What a call of verifyChain leaves in blockchain_logs: it issues one SELECT
MutTableAfterVerifyChain(rows) ==
    {r \in rows : r.id # verifyChain(rows).invalidAt}

TableAfterVerifyChain(rows) == rows

\* What a call of getLogs leaves in blockchain_logs: it issues two SELECTs
TableAfterGetLogs(rows) == rows

\* A call of verifyChain by itself, at any moment: one SELECT and the walk
\* over its results.  report keeps the rows the verdict was given on.
VerifyChain ==
    /\ report = {}
    /\ report' = {[result |-> verifyChain(ledger), rows |-> ledger]}
    /\ ledger' = TableAfterVerifyChain(ledger)
    /\ UNCHANGED <<seq, now, pc, attempt, locals, ret, faults, wrote, inserts,
                   first, overlapped, tampered, prod, hashIn, hashOut, page, repair,
                   runs, corrupted>>

\* A call of getLogs by itself
GetLogs(options) ==
    /\ page = {}
    /\ page' = {getLogs(ledger, options)}
    /\ ledger' = TableAfterGetLogs(ledger)
    /\ UNCHANGED <<seq, now, pc, attempt, locals, ret, faults, wrote, inserts,
                   first, overlapped, tampered, prod, hashIn, hashOut, report, repair,
                   runs, corrupted>>

\* GET /api/logs: getLogs, then verifyChain when verify=true.  report keeps
\* the rows the verdict was given on.  The handler passes limit, offset,
\* action, actorId and targetType: getLogs gets no actorName.
LogsGet(options) ==
    /\ InFlight = {}
    /\ repair.pc = "idle"
    /\ page = {}
    /\ page' = {getLogs(ledger, [limit |-> options.limit, offset |-> options.offset,
                                 action |-> options.action, actorName |-> Null,
                                 targetType |-> options.targetType])}
    /\ report' = IF options.verify
                 THEN {[result |-> verifyChain(TableAfterGetLogs(ledger)),
                        rows |-> TableAfterGetLogs(ledger)]}
                 ELSE report
    /\ ledger' = IF options.verify
                 THEN TableAfterVerifyChain(TableAfterGetLogs(ledger))
                 ELSE TableAfterGetLogs(ledger)
    /\ UNCHANGED <<seq, now, pc, attempt, locals, ret, faults, wrote, inserts,
                   first, overlapped, tampered, prod, hashIn, hashOut, repair, runs,
                   corrupted>>

----------------------------------------------------------------------------
(* The Repair Tool: POST /api/admin/repair-blockchain *)

NoRepair == [pc |-> "idle"]

DefaultStartFromId == 141

\* The request bodies: startFromId 0 stands for an absent one, dryRun is
\* absent, true or false
RepairBodies == [startFromId : {0, 1, 2, 3}, dryRun : {"absent", "true", "false"}]

\* body.dryRun taken as false unless it is given as true
MutDryRunOfGivenOnly(body) == body.dryRun = "true"

\* body.startFromId || 141 and body.dryRun ?? true
StartFromIdOf(body) ==
    IF body.startFromId # 0 THEN body.startFromId ELSE DefaultStartFromId

DryRunOf(body) == body.dryRun # "false"

\* A SELECT without the WHERE clause
MutBlocksToRepairAll(rows, startFromId) == OrderById(rows)

\* SELECT * FROM blockchain_logs WHERE id >= ? ORDER BY id ASC
BlocksToRepair(rows, startFromId) == OrderById({r \in rows : r.id >= startFromId})

\* The loop that calculates the new hashes of blocks[i..] and collects the
\* updates, with the running currentPrevHash
RECURSIVE ComputeUpdates(_, _, _)
ComputeUpdates(blocks, i, currentPrevHash) ==
    IF i > Len(blocks) THEN <<>>
    ELSE LET block == blocks[i]
             newBlockHash ==
                 calculateBlockHash(currentPrevHash, block.action, block.actor_name,
                                    block.target_type, block.target_name,
                                    block.result, block.details, block.timestamp)
             rest == ComputeUpdates(blocks, i + 1, newBlockHash)
         IN IF block.prev_hash # currentPrevHash \/ block.block_hash # newBlockHash
            THEN <<[id |-> block.id, oldHash |-> block.block_hash,
                    newHash |-> newBlockHash, oldPrev |-> block.prev_hash,
                    newPrev |-> currentPrevHash]>> \o rest
            ELSE rest

\* The ids of a list of updates, in the order of the list
UpdateIds(updates) == [i \in 1..Len(updates) |-> updates[i].id]

\* What the endpoint answered to a request, with the updates it calculated, the
\* number it applied, and the table before and after
Run(body, answer, message, updates, repaired, before, after) ==
    [body |-> body, startFromId |-> StartFromIdOf(body), dryRun |-> DryRunOf(body),
     response |-> answer, message |-> message, updates |-> updates,
     repaired |-> repaired, before |-> before, after |-> after]

\* An UPDATE that sets block_hash alone
MutUpdateRowHashOnly(rows, update) ==
    {IF r.id = update.id THEN [r EXCEPT !.block_hash = update.newHash] ELSE r :
        r \in rows}

\* The last two runs, the latest last
Record(history, run) ==
    IF Len(history) < 2 THEN Append(history, run) ELSE <<history[2], run>>

\* UPDATE blockchain_logs SET block_hash = ?, prev_hash = ? WHERE id = ?
UpdateRow(rows, update) ==
    {IF r.id = update.id
     THEN [r EXCEPT !.block_hash = update.newHash, !.prev_hash = update.newPrev]
     ELSE r : r \in rows}

\* The UNIQUE constraint on block_hash rejects the UPDATE
UpdateRejected(rows, update) ==
    \E r \in rows : r.id # update.id /\ r.block_hash = update.newHash

\* onRequestPost up to the first UPDATE: the defaults, the two SELECTs, the
\* calculation of the updates, and the answer of a run that applies none
RepairPost(body) ==
    /\ repair.pc = "idle"
    /\ page = {}
    /\ runs # <<>> => StartFromIdOf(body) = runs[1].startFromId
    /\ LET startFromId == StartFromIdOf(body)
           blocksToRepair == BlocksToRepair(ledger, startFromId)
           prevBlock == RowsWithId(ledger, startFromId - 1)
           updates == ComputeUpdates(blocksToRepair, 1,
                                     (CHOOSE r \in prevBlock : TRUE).block_hash)
       IN IF Len(blocksToRepair) = 0
          THEN /\ runs' = Record(runs, Run(body, successResponse, "No blocks to repair",
                                           <<>>, 0, ledger, ledger))
               /\ UNCHANGED repair
          ELSE IF prevBlock = {}
          THEN /\ runs' = Record(runs, Run(body, errorResponse(400),
                                           "Cannot find previous block to start repair",
                                           <<>>, 0, ledger, ledger))
               /\ UNCHANGED repair
          ELSE IF DryRunOf(body)
          THEN /\ runs' = Record(runs, Run(body, successResponse, "dryRun", updates, 0,
                                           ledger, ledger))
               /\ UNCHANGED repair
          ELSE /\ repair' = [pc |-> "apply", body |-> body, updates |-> updates,
                             repaired |-> 0, before |-> ledger]
               /\ UNCHANGED runs
    /\ UNCHANGED <<ledger, seq, now, pc, attempt, locals, ret, faults, wrote, inserts,
                   first, overlapped, tampered, prod, hashIn, hashOut, report, page,
                   corrupted>>

\* The loop that applies the updates taken from the last one down
MutRepairUpdateLastFirst ==
    /\ repair.pc = "apply"
    /\ repair.repaired < Len(repair.updates)
    /\ LET update == repair.updates[Len(repair.updates) - repair.repaired]
       IN IF UpdateRejected(ledger, update)
          THEN /\ runs' = Record(runs, Run(repair.body, errorResponse(500),
                                           "Failed to repair blockchain", repair.updates,
                                           repair.repaired, repair.before, ledger))
               /\ repair' = NoRepair
               /\ UNCHANGED ledger
          ELSE /\ ledger' = UpdateRow(ledger, update)
               /\ repair' = [repair EXCEPT !.repaired = @ + 1]
               /\ UNCHANGED runs
    /\ UNCHANGED <<seq, now, pc, attempt, locals, ret, faults, wrote, inserts, first,
                   overlapped, tampered, prod, hashIn, hashOut, report, page, corrupted>>

\* One turn of the loop that applies the updates: the UPDATE of the next one,
\* or the 500 answer when the store rejects it
RepairUpdate ==
    /\ repair.pc = "apply"
    /\ repair.repaired < Len(repair.updates)
    /\ LET update == repair.updates[repair.repaired + 1]
       IN IF UpdateRejected(ledger, update)
          THEN /\ runs' = Record(runs, Run(repair.body, errorResponse(500),
                                           "Failed to repair blockchain", repair.updates,
                                           repair.repaired, repair.before, ledger))
               /\ repair' = NoRepair
               /\ UNCHANGED ledger
          ELSE /\ ledger' = UpdateRow(ledger, update)
               /\ repair' = [repair EXCEPT !.repaired = @ + 1]
               /\ UNCHANGED runs
    /\ UNCHANGED <<seq, now, pc, attempt, locals, ret, faults, wrote, inserts, first,
                   overlapped, tampered, prod, hashIn, hashOut, report, page, corrupted>>

\* The answer after the last UPDATE
RepairReturn ==
    /\ repair.pc = "apply"
    /\ repair.repaired = Len(repair.updates)
    /\ runs' = Record(runs, Run(repair.body, successResponse, "repaired", repair.updates,
                                repair.repaired, repair.before, ledger))
    /\ repair' = NoRepair
    /\ UNCHANGED <<ledger, seq, now, pc, attempt, locals, ret, faults, wrote, inserts,
                   first, overlapped, tampered, prod, hashIn, hashOut, report, page,
                   corrupted>>

\* The store fails an UPDATE of the loop, or the worker stops there: the run
\* ends with the updates applied so far
RepairStoreError ==
    /\ repair.pc = "apply"
    /\ repair.repaired < Len(repair.updates)
    /\ runs' = Record(runs, Run(repair.body, errorResponse(500),
                                "Failed to repair blockchain", repair.updates,
                                repair.repaired, repair.before, ledger))
    /\ repair' = NoRepair
    /\ UNCHANGED <<ledger, seq, now, pc, attempt, locals, ret, faults, wrote, inserts,
                   first, overlapped, tampered, prod, hashIn, hashOut, report, page,
                   corrupted>>

----------------------------------------------------------------------------
(* Writes made to the table behind the program's back *)

NoTamper == [kind |-> "none", id |-> 0, field |-> "", old |-> "", new |-> "",
             wasLast |-> FALSE]

\* The columns of blockchain_logs that enter the hash, and those that may be NULL
HashedFields == {"block_hash", "prev_hash", "action", "actor_name", "target_type",
                 "target_name", "result", "details", "timestamp"}

Nullable == {"actor_name", "target_type", "target_name", "result", "details"}

\* The values an out-of-band UPDATE may store in a column
TamperValues(rows, f) ==
    {"", "x"}
    \cup (IF f \in Nullable THEN {Null} ELSE {})
    \cup (IF f \in {"block_hash", "prev_hash"}
          THEN {"0"} \cup {r.block_hash : r \in rows} ELSE {})

\* UPDATE blockchain_logs SET f = v WHERE id = k, on a quiet and valid ledger.
\* The table's constraints hold for this write as for any other.
Tamper(k, f, v) ==
    /\ tampered.kind = "none"
    /\ InFlight = {}
    /\ verifyChain(ledger).valid
    /\ \E r \in ledger :
         /\ r.id = k
         /\ r[f] # v
         /\ f = "block_hash" => ~UniqueViolation(ledger, v)
         /\ ledger' = (ledger \ {r}) \cup {[r EXCEPT ![f] = v]}
         /\ tampered' = [kind |-> "update", id |-> k, field |-> f, old |-> r[f],
                         new |-> v, wasLast |-> (k = MaxId(ledger))]
    /\ UNCHANGED <<maint, prod, seq, now, pc, attempt, locals, ret, faults, wrote, inserts, first,
                   overlapped>>

\* DELETE FROM blockchain_logs WHERE id = k, on a quiet and valid ledger
DeleteOutOfBand(k) ==
    /\ tampered.kind = "none"
    /\ InFlight = {}
    /\ verifyChain(ledger).valid
    /\ k \in Ids(ledger)
    /\ ledger' = {r \in ledger : r.id # k}
    /\ tampered' = [kind |-> "delete", id |-> k, field |-> "", old |-> "", new |-> "",
                    wasLast |-> (k = MaxId(ledger))]
    /\ UNCHANGED <<maint, prod, seq, now, pc, attempt, locals, ret, faults, wrote, inserts, first,
                   overlapped>>

\* The columns an out-of-band writer corrupts here, and the values it stores
CorruptFields == {"prev_hash", "block_hash", "action", "actor_name"}

CorruptValues(rows, f) ==
    IF f = "prev_hash" THEN {"x", "0"}
    ELSE IF f = "block_hash" THEN {"x"} \cup {r.prev_hash : r \in rows}
    ELSE IF f = "actor_name" THEN {Null, ""}
    ELSE {"x"}

MaxCorrupt == 2

\* UPDATE blockchain_logs SET f = v WHERE id = k, out-of-band, on a quiet
\* table: any number of such writes up to MaxCorrupt, one per column of a row.
Corrupt(k, f, v) ==
    /\ InFlight = {}
    /\ repair.pc = "idle"
    /\ runs = <<>>
    /\ page = {}
    /\ Cardinality(corrupted) < MaxCorrupt
    /\ <<k, f>> \notin corrupted
    /\ \E r \in ledger :
         /\ r.id = k
         /\ r[f] # v
         /\ f = "block_hash" => ~UniqueViolation(ledger, v)
         /\ ledger' = (ledger \ {r}) \cup {[r EXCEPT ![f] = v]}
    /\ corrupted' = corrupted \cup {<<k, f>>}
    /\ UNCHANGED <<seq, now, pc, attempt, locals, ret, faults, wrote, inserts, first,
                   overlapped, tampered, prod, hashIn, hashOut, report, page, repair,
                   runs>>

----------------------------------------------------------------------------
(* Concurrent appends against an initially empty ledger *)

Init ==
    /\ ledger = {}
    /\ seq = 0
    /\ now = 0
    /\ pc = [p \in Procs |-> "idle"]
    /\ attempt = [p \in Procs |-> 0]
    /\ params = [p \in Procs |-> NoParams]
    /\ timestamp = [p \in Procs |-> ""]
    /\ prevHash = [p \in Procs |-> ""]
    /\ blockHash = [p \in Procs |-> ""]
    /\ insertedBlock = [p \in Procs |-> {}]
    /\ ret = [p \in Procs |-> {}]
    /\ faults = 0
    /\ wrote = {}
    /\ inserts = [p \in Procs |-> 0]
    /\ first = [p \in Procs |-> {}]
    /\ overlapped = [p \in Procs |-> {}]
    /\ tampered = NoTamper
    /\ request = [p \in Procs |-> NoRequest]
    /\ response = [p \in Procs |-> {}]
    /\ db = [domain |-> "suspended", appeal |-> "pending", is_banned |-> FALSE,
             is_admin |-> FALSE, require_review |-> "false"]
    /\ auditLogs = 0
    /\ hashIn = NoHashIn
    /\ hashOut = <<>>
    /\ report = {}
    /\ page = {}
    /\ repair = NoRepair
    /\ runs = <<>>
    /\ corrupted = {}

Step(p) ==
    \/ FetchLast(p)
    \/ Insert(p)
    \/ SelectInserted(p)
    \/ SelectPrev(p)
    \/ Delete(p)

Next == \E p \in Procs : Call(p) \/ Step(p)

Spec == Init /\ [][Next]_vars

\* The calls come one after another: none starts while another is in flight.
\* The rollback is left out of these runs, and C4_SequentialAppendsVerify shows
\* that no call ever stands before it.
SeqStep(p) ==
    \/ FetchLast(p)
    \/ Insert(p)
    \/ SelectInserted(p)
    \/ SelectPrev(p)

NextSeq == \E p \in Procs : (InFlight = {} /\ Call(p)) \/ SeqStep(p)

SpecSeq == Init /\ [][NextSeq]_vars

\* The calls come one after another, except for one pair of calls that run
\* together.
NextPair ==
    \E p \in Procs :
        \/ /\ \/ InFlight = {}
              \/ Cardinality(InFlight) = 1 /\ \A q \in Procs : overlapped[q] = {}
           /\ Call(p)
        \/ Step(p)

SpecPair == Init /\ [][NextPair]_vars

\* Two calls, which may overlap; the store may fail, on any statement, while a
\* single call is in flight.
NextFault ==
    \E p \in Procs :
        \/ Cardinality({q \in Procs : pc[q] # "idle"}) < 2 /\ Call(p)
        \/ Step(p)
        \/ InFlight = {p} /\ StoreError(p)

SpecFault == Init /\ [][NextFault]_vars

\* Appends one after another, then one out-of-band write, after which the table
\* is left alone.
NextTamper ==
    \/ tampered.kind = "none" /\ NextSeq
    \/ \E k \in 1..(seq + 1) : \E f \in HashedFields :
          \E v \in TamperValues(ledger, f) : Tamper(k, f, v)
    \/ \E k \in 1..(seq + 1) : DeleteOutOfBand(k)

SpecTamper == Init /\ [][NextTamper]_vars

\* The admin API: at most two requests are being served at any time, and the
\* store may fail on any statement.
NextProd ==
    \E p \in Procs :
        \/ Cardinality(InFlight) < 2 /\ Receive(p)
        \/ DomainsPost(p)
        \/ AppealsPost(p)
        \/ UsersPost(p)
        \/ SettingsPut(p)
        \/ PlainFetch(p)
        \/ PlainInsert(p)
        \/ Respond(p)
        \/ ProdStoreError(p)

SpecProd == Init /\ [][NextProd]_vars

\* Requests to POST /api/admin/domains alone, at most two of them in flight
\* together: concurrent calls of the plain addBlockchainLog
NextPlain ==
    \E p \in Procs :
        \/ /\ Cardinality(InFlight) < 2
           /\ Receive(p)
           /\ request'[p].handler = "domains"
        \/ DomainsPost(p)
        \/ PlainFetch(p)
        \/ PlainInsert(p)
        \/ Respond(p)

SpecPlain == Init /\ [][NextPlain]_vars

\* One deployment runs one of the two lib/blockchain files: either every append
\* is a direct call of the retry variant, or every append is made by a handler
\* through the plain variant.  The appends come one after another.
NextEither ==
    \E p \in Procs :
        \/ /\ InFlight = {}
           /\ \A q \in Procs : request[q] = NoRequest
           /\ Call(p)
        \/ SeqStep(p)
        \/ /\ InFlight = {}
           /\ \A q \in Procs : q < p => request[q] # NoRequest
           /\ Receive(p)
        \/ DomainsPost(p)
        \/ AppealsPost(p)
        \/ UsersPost(p)
        \/ SettingsPut(p)
        \/ PlainFetch(p)
        \/ PlainInsert(p)
        \/ Respond(p)

SpecEither == Init /\ [][NextEither]_vars

\* Appends of one event one after another within one reading of the clock
NextAppeals ==
    /\ NextSeq
    /\ \A p \in Procs : params'[p].action \in {"", "appeal_submit"}
    /\ now' = now

\* Calls of addBlockchainLog, of which one pair runs together, and one call of
\* verifyChain at any moment
NextWatch ==
    \/ NextPair
    \/ VerifyChain

SpecWatch == Init /\ [][NextWatch]_vars

\* Appends one after another, then out-of-band writes, then one GET /api/logs
NextRead ==
    \/ corrupted = {} /\ page = {} /\ NextAppeals
    \/ \E k \in 1..(seq + 1) : \E f \in CorruptFields :
          \E v \in CorruptValues(ledger, f) : Corrupt(k, f, v)
    \/ \E options \in LogOptions : LogsGet(options)

SpecRead == Init /\ [][NextRead]_vars

\* Appends one after another, then out-of-band writes after the first entry,
\* then runs of the repair endpoint with the same startFromId; one
\* GET /api/logs?verify=true before the second run has answered
NextRepair ==
    \/ corrupted = {} /\ runs = <<>> /\ repair.pc = "idle" /\ page = {} /\ NextAppeals
    \/ \E k \in 2..(seq + 1) : \E f \in CorruptFields :
          \E v \in CorruptValues(ledger, f) : Corrupt(k, f, v)
    \/ \E body \in RepairBodies : InFlight = {} /\ RepairPost(body)
    \/ RepairUpdate
    \/ RepairReturn
    \/ RepairStoreError
    \/ \E options \in LogOptions :
          /\ options.limit = 0 /\ options.offset = 0 /\ options.action = Null
          /\ options.targetType = Null
          /\ options.verify
          /\ Len(runs) < 2
          /\ LogsGet(options)

SpecRepair == Init /\ [][NextRepair]_vars

\* Appends one after another except for one pair that run together,
\* out-of-band writes of block_hash and action after the first entry on the
\* quiet table, and one run of the repair endpoint with dryRun=false from id 2
\* or 3 whose SELECTs and UPDATEs interleave with the statements of the appends
NextLive ==
    \/ /\ NextPair
       /\ \A p \in Procs : params'[p].action \in {"", "appeal_submit"}
       /\ now' = now
    \/ \E k \in 2..(seq + 1) : \E f \in {"block_hash", "action"} :
          \E v \in CorruptValues(ledger, f) : Corrupt(k, f, v)
    \/ \E body \in RepairBodies :
          /\ body.dryRun = "false" /\ body.startFromId >= 2
          /\ runs = <<>>
          /\ RepairPost(body)
    \/ RepairUpdate
    \/ RepairReturn

SpecLive == Init /\ [][NextLive]_vars

\* calculateBlockHash called on two argument lists that are the same or differ
\* in one argument; the first list is hashed a second time.
InitHash ==
    /\ ledger = {}
    /\ seq = 0
    /\ now = 0
    /\ pc = [p \in Procs |-> "idle"]
    /\ attempt = [p \in Procs |-> 0]
    /\ params = [p \in Procs |-> NoParams]
    /\ timestamp = [p \in Procs |-> ""]
    /\ prevHash = [p \in Procs |-> ""]
    /\ blockHash = [p \in Procs |-> ""]
    /\ insertedBlock = [p \in Procs |-> {}]
    /\ ret = [p \in Procs |-> {}]
    /\ faults = 0
    /\ wrote = {}
    /\ inserts = [p \in Procs |-> 0]
    /\ first = [p \in Procs |-> {}]
    /\ overlapped = [p \in Procs |-> {}]
    /\ tampered = NoTamper
    /\ request = [p \in Procs |-> NoRequest]
    /\ response = [p \in Procs |-> {}]
    /\ db = [domain |-> "suspended", appeal |-> "pending", is_banned |-> FALSE,
             is_admin |-> FALSE, require_review |-> "false"]
    /\ auditLogs = 0
    /\ \E variant \in {"retry", "plain"} :
         \E a \in HashArgs(variant) : \E b \in HashArgs(variant) :
            /\ Cardinality(DiffersAt(a, b)) <= 1
            /\ hashIn = [variant |-> variant, a |-> a, b |-> b]
    /\ hashOut = <<>>
    /\ report = {}
    /\ page = {}
    /\ repair = NoRepair
    /\ runs = <<>>
    /\ corrupted = {}

NextHash == ComputeHashes

\* The row a call of addBlockchainLog with event e inserts with id after the
\* rows of a table
Appended(rows, id, e) ==
    LET prev == getLatestBlockHash(rows)
        detailsStr == IF e.details.isNull THEN Null ELSE JSONStringify(e.details.entries)
        resultStr == Coalesce(e.result, "success")
        ts == ToISOString(0)
    IN [id |-> id,
        block_hash |-> calculateBlockHash(prev, e.action, e.actorName, e.targetType,
                                          e.targetName, resultStr, detailsStr, ts),
        prev_hash |-> prev,
        action |-> e.action,
        actor_name |-> e.actorName,
        target_type |-> e.targetType,
        target_name |-> e.targetName,
        result |-> resultStr,
        details |-> detailsStr,
        timestamp |-> ts]

\* The table after calls of addBlockchainLog, one after another, with the
\* events of a sequence
RECURSIVE Chain(_)
Chain(events) ==
    IF events = <<>> THEN {}
    ELSE LET rows == Chain(SubSeq(events, 1, Len(events) - 1))
         IN rows \cup {Appended(rows, Len(events), events[Len(events)])}

\* The event sequences of the tables getLogs is called on: up to NumCalls
\* events
LogTables == UNION {[1..n -> Events] : n \in 0..NumCalls}

\* getLogs and GET /api/logs called once on a table that sequential appends
\* have built
InitLogs ==
    /\ \E events \in LogTables :
          /\ ledger = Chain(events)
          /\ seq = Len(events)
    /\ now = 0
    /\ pc = [p \in Procs |-> "idle"]
    /\ attempt = [p \in Procs |-> 0]
    /\ params = [p \in Procs |-> NoParams]
    /\ timestamp = [p \in Procs |-> ""]
    /\ prevHash = [p \in Procs |-> ""]
    /\ blockHash = [p \in Procs |-> ""]
    /\ insertedBlock = [p \in Procs |-> {}]
    /\ ret = [p \in Procs |-> {}]
    /\ faults = 0
    /\ wrote = {}
    /\ inserts = [p \in Procs |-> 0]
    /\ first = [p \in Procs |-> {}]
    /\ overlapped = [p \in Procs |-> {}]
    /\ tampered = NoTamper
    /\ request = [p \in Procs |-> NoRequest]
    /\ response = [p \in Procs |-> {}]
    /\ db = [domain |-> "suspended", appeal |-> "pending", is_banned |-> FALSE,
             is_admin |-> FALSE, require_review |-> "false"]
    /\ auditLogs = 0
    /\ hashIn = NoHashIn
    /\ hashOut = <<>>
    /\ report = {}
    /\ page = {}
    /\ repair = NoRepair
    /\ runs = <<>>
    /\ corrupted = {}

NextLogs ==
    \/ \E options \in GetLogsOptions : GetLogs(options)
    \/ \E options \in LogOptions : LogsGet(options)

SpecLogs == InitLogs /\ [][NextLogs]_vars

SpecHash == InitHash /\ [][NextHash]_vars

----------------------------------------------------------------------------
(* Properties *)

Returned == {p \in Procs : pc[p] = "done"}

Succeeded == {p \in Returned : \E r \in ret[p] : r.success}

\* The rows of the ledger that call p inserted
EntriesOf(p) == {r \in ledger : <<r.id, p>> \in wrote}

FirstPrev(p) == (CHOOSE f \in first[p] : TRUE).prev

FirstHow(p) == (CHOOSE f \in first[p] : TRUE).how

\* C1: once all of N concurrent calls on an empty ledger have returned,
\* verifyChain reports valid: true.
C1_ConcurrentAppendsVerify ==
    (Returned = Procs) => verifyChain(ledger).valid

\* Two calls that ran together with each other and with no other call, and
\* whose first attempts read the same latest block hash
RacingPair(p, q) ==
    /\ p # q
    /\ overlapped[p] = {q}
    /\ overlapped[q] = {p}
    /\ {p, q} \subseteq Returned
    /\ FirstPrev(p) = FirstPrev(q)

\* The entries whose calls have returned
Settled == UNION {EntriesOf(p) : p \in Returned}

\* The ledger the pair leaves: both succeeded, two entries of theirs, the later
\* chained on the earlier, and no prev_hash used twice among the entries of
\* calls that have returned.
PairLedger(p, q) ==
    /\ {p, q} \subseteq Succeeded
    /\ Cardinality(EntriesOf(p) \cup EntriesOf(q)) = 2
    /\ \E a \in EntriesOf(p) \cup EntriesOf(q) :
         \E b \in EntriesOf(p) \cup EntriesOf(q) :
            a.id < b.id /\ b.prev_hash = a.block_hash
    /\ \A a \in Settled : \A b \in Settled : a.prev_hash = b.prev_hash => a = b

\* C2 as stated: of two calls that read the same latest hash, one succeeds on
\* its first attempt; the other finds the mismatch in its link check, deletes
\* its entry, retries and succeeds; two chained entries, no fork.
C2_PairRaceByLinkCheck ==
    \A p \in Procs : \A q \in Procs :
        RacingPair(p, q) =>
            /\ \E w \in {p, q} : \E l \in {p, q} \ {w} :
                  /\ FirstHow(w) = "ok"
                  /\ FirstHow(l) = "race"
                  /\ attempt[l] = 1
            /\ PairLedger(p, q)

\* C2 as amended: the other call's first attempt ends either in the link check
\* (its entry is deleted) or, when both calls computed the same block hash, in
\* the rejection of its INSERT; it retries once and succeeds.
C2_PairRace ==
    \A p \in Procs : \A q \in Procs :
        RacingPair(p, q) =>
            /\ \E w \in {p, q} : \E l \in {p, q} \ {w} :
                  /\ FirstHow(w) = "ok"
                  /\ FirstHow(l) \in {"race", "unique"}
                  /\ attempt[l] = 1
            /\ PairLedger(p, q)

C2_Witness ==
    \E p \in Procs : \E q \in Procs :
        /\ RacingPair(p, q)
        /\ FirstHow(q) = "race"
        /\ FirstPrev(p) # "0"

\* C3: after N concurrent calls on an empty ledger have all returned, the
\* ledger holds exactly N entries and their ids are exactly 1..N.
C3_IdsAreOneToN ==
    (Returned = Procs) =>
        /\ Cardinality(ledger) = NumCalls
        /\ Ids(ledger) = 1..NumCalls

\* C4: calls made one after another on an empty ledger: after every append
\* verifyChain reports valid: true and totalBlocks is the number of appends;
\* no append is rolled back.
C4_SequentialAppendsVerify ==
    /\ \A p \in Procs : pc[p] # "delete"
    /\ (InFlight = {}) =>
          verifyChain(ledger) =
              [valid |-> TRUE, totalBlocks |-> Cardinality(Returned), invalidAt |-> 0]

C4_Witness ==
    /\ InFlight = {}
    /\ Cardinality(Returned) = 3
    /\ Cardinality(ledger) = 3

\* Strings joined by "|"
RECURSIVE JoinBar(_)
JoinBar(ss) ==
    IF Len(ss) = 0 THEN ""
    ELSE IF Len(ss) = 1 THEN ss[1]
    ELSE ss[1] \o "|" \o JoinBar(Tail(ss))

\* A null or absent field counts as the empty string
NullAsEmpty(x) == IF x = Null THEN "" ELSE x

\* The seven values of an entry, and the eight with result among them
SevenValues(r) ==
    <<r.prev_hash, r.action, NullAsEmpty(r.actor_name), NullAsEmpty(r.target_type),
      NullAsEmpty(r.target_name), NullAsEmpty(r.details), r.timestamp>>

EightValues(r) ==
    <<r.prev_hash, r.action, NullAsEmpty(r.actor_name), NullAsEmpty(r.target_type),
      NullAsEmpty(r.target_name), NullAsEmpty(r.result), NullAsEmpty(r.details),
      r.timestamp>>

\* Entry r carries the event and the timestamp that call p captured
CarriesEvent(r, p) ==
    /\ r.action = params[p].action
    /\ r.actor_name = params[p].actorName
    /\ r.target_type = params[p].targetType
    /\ r.target_name = params[p].targetName
    /\ r.details = (IF params[p].details.isNull THEN Null
                    ELSE JSONStringify(params[p].details.entries))
    /\ r.timestamp = timestamp[p]

\* The call that made the first append has returned success
FirstAppended(p) == p = 1 /\ p \in Succeeded /\ request[p].handler \notin {"users", "settings"}

C12_HashSeparatesSingleChanges ==
    hashOut # <<>> =>
        /\ hashOut[1] = hashOut[3]
        /\ hashIn.a = hashIn.b => hashOut[1] = hashOut[2]
        /\ hashIn.a # hashIn.b => hashOut[1] # hashOut[2]

\* The one argument changed is changed between null and the empty string
NullVersusEmpty ==
    \E i \in DiffersAt(hashIn.a, hashIn.b) : {hashIn.a[i], hashIn.b[i]} = {Null, ""}

\* C12 as amended: except for a change between null and the empty string,
\* which are hashed alike.
C12_HashSeparatesButNullEmpty ==
    hashOut # <<>> =>
        /\ hashOut[1] = hashOut[3]
        /\ hashIn.a = hashIn.b => hashOut[1] = hashOut[2]
        /\ (hashIn.a # hashIn.b /\ ~NullVersusEmpty) => hashOut[1] # hashOut[2]
        /\ NullVersusEmpty => hashOut[1] = hashOut[2]

C12_Witness ==
    /\ hashOut # <<>>
    /\ hashIn.variant = "retry"
    /\ DiffersAt(hashIn.a, hashIn.b) = {7}
    /\ {hashIn.a[7], hashIn.b[7]} = {Null, "x|y"}

\* C13: getLatestBlockHash returns "0" exactly when the ledger is empty, and
\* once all appends have completed the entry with the smallest id has
\* prev_hash "0" and no other entry has.
C13_OneGenesis ==
    /\ (getLatestBlockHash(ledger) = "0") <=> (ledger = {})
    /\ (Returned = Procs /\ ledger # {}) =>
          \A r \in ledger :
              (r.prev_hash = "0") <=> (\A o \in ledger : r.id <= o.id)

\* The value entry i of results is checked against: "0", then the stored
\* block_hash of the entry before it
RunningValue(results, i) == IF i = 1 THEN "0" ELSE results[i - 1].block_hash

LinkFails(results, i) == results[i].prev_hash # RunningValue(results, i)

HashFails(results, i) ==
    sha256(JoinBar(EightValues(results[i]))) # results[i].block_hash

\* The positions, in ascending id order, of the entries that fail a check
Failing(rows) ==
    LET results == OrderById(rows)
    IN {i \in 1..Len(results) : LinkFails(results, i) \/ HashFails(results, i)}

FirstFailing(rows) == CHOOSE i \in Failing(rows) : \A j \in Failing(rows) : i <= j

\* C14: verifyChain returns valid: false with invalidAt the id of the first
\* entry, in ascending id order, whose prev_hash differs from the running
\* value ("0", then the stored block_hash of the entry before) or whose
\* recomputed hash differs from its stored block_hash; it returns valid: true
\* with totalBlocks the number of entries (0 for an empty ledger) exactly when
\* no entry fails.
C14_VerdictIsFirstFailure ==
    \A v \in report :
        IF Failing(v.rows) = {}
        THEN /\ v.result.valid
             /\ v.result.totalBlocks = Cardinality(v.rows)
             /\ v.result.invalidAt = 0
        ELSE /\ ~v.result.valid
             /\ v.result.invalidAt = OrderById(v.rows)[FirstFailing(v.rows)].id

\* A verdict on three entries of which the second and the third fail
C14_Witness ==
    \E v \in report :
        /\ Cardinality(v.rows) = 3
        /\ Failing(v.rows) = {2, 3}
        /\ v.result.invalidAt = 2

\* The invariant the first failing entry breaks: INV1 is the prev_hash link,
\* INV2 the recomputed hash
BrokenInvariant(rows) ==
    IF Failing(rows) = {} THEN "none"
    ELSE IF LinkFails(OrderById(rows), FirstFailing(rows)) THEN "INV1"
    ELSE "INV2"

\* The tables that differ from rows in one column of one row
OneColumnAway(rows) ==
    {(rows \ {r}) \cup {[r EXCEPT ![f] = v]} :
        <<r, f, v>> \in {t \in rows \X CorruptFields \X
                                 UNION {CorruptValues(rows, g) : g \in CorruptFields} :
                             t[3] \in CorruptValues(rows, t[2])}}

\* C15: a failed verification tells which invariant broke: two tables on which
\* verifyChain returns the same failed result break the same invariant.
C15_ResultTellsInvariant ==
    \A v \in report : \A other \in OneColumnAway(v.rows) :
        (~v.result.valid /\ verifyChain(other) = v.result)
            => BrokenInvariant(other) = BrokenInvariant(v.rows)

\* C16: verifyChain and getLogs leave the ledger unchanged: a step in which
\* GET /api/logs answers changes no row, and every step that changes a row is
\* an INSERT or DELETE of addBlockchainLog or an UPDATE of the repair endpoint
\* (or the out-of-band write of the environment).
C16_ReadersLeaveLedger ==
    [][/\ (page' # page \/ report' # report) => ledger' = ledger
       /\ ledger' # ledger =>
             \/ \E p \in Procs : pc[p] \in {"insert", "delete"} /\ pc'[p] # pc[p]
             \/ repair.pc = "apply" /\ repair'.repaired = repair.repaired + 1
             \/ corrupted' # corrupted]_vars

\* GET /api/logs?verify=true has answered on a table that fails verification
C16_Witness ==
    /\ page # {}
    /\ \E v \in report : ~v.result.valid /\ v.rows = ledger /\ Cardinality(ledger) = 3

\* The entries before startFromId form a valid chain
PrefixValid(rows, startFromId) == verifyChain({r \in rows : r.id < startFromId}).valid

\* The ids of the rows that differ between two tables
ChangedIds(before, after) == {r.id : r \in before \ after}

\* C17: when the entries before startFromId form a valid chain and there is an
\* entry at startFromId - 1, a run of the repair endpoint with dryRun=false that
\* returns success leaves a table on which verifyChain reports valid: true.
C17_RepairedLedgerVerifies ==
    \A i \in 1..Len(runs) :
        (/\ runs[i].body.dryRun = "false"
         /\ runs[i].response.success
         /\ RowsWithId(runs[i].before, runs[i].startFromId - 1) # {}
         /\ PrefixValid(runs[i].before, runs[i].startFromId))
            => verifyChain(runs[i].after).valid

\* A successful run that rewrote two entries of a table corrupted in two columns
C17_Witness ==
    \E i \in 1..Len(runs) :
        /\ runs[i].body.dryRun = "false"
        /\ runs[i].response.success
        /\ runs[i].repaired = 2
        /\ Cardinality(corrupted) = 2
        /\ PrefixValid(runs[i].before, runs[i].startFromId)
        /\ ~verifyChain(runs[i].before).valid
        /\ verifyChain(runs[i].after).valid

\* The run ended at an UPDATE that the UNIQUE constraint on block_hash rejects
Rejected(run) ==
    /\ run.repaired < Len(run.updates)
    /\ UpdateRejected(run.after, run.updates[run.repaired + 1])

\* C18: of two runs of the repair endpoint in a row with dryRun=false and the
\* same startFromId, on a ledger whose entries before startFromId form a valid
\* chain, the first run not cut short by a failure of the store, the second
\* calculates an empty list of updates and changes nothing.
C18_SecondRunEmpty ==
    (/\ Len(runs) = 2
     /\ runs[1].body.dryRun = "false"
     /\ runs[2].body.dryRun = "false"
     /\ runs[1].startFromId = runs[2].startFromId
     /\ runs[2].before = runs[1].after
     /\ PrefixValid(runs[1].before, runs[1].startFromId)
     /\ runs[1].response.success \/ Rejected(runs[1]))
        => runs[2].updates = <<>> /\ runs[2].after = runs[2].before

ValidUpTo(rows, id) == verifyChain({r \in rows : r.id <= id}).valid

\* C20: a run with dryRun=false applies its updates in ascending id order, and
\* wherever it stops after at least one update, the entries from the start of
\* the ledger up to the last updated one satisfy INV1 and INV2, when the
\* entries before startFromId formed a valid chain.
C20_RepairedPrefixVerifies ==
    /\ repair.pc = "apply" =>
          /\ \A k \in 1..(Len(repair.updates) - 1) :
                repair.updates[k].id < repair.updates[k + 1].id
          /\ (repair.repaired >= 1
                 /\ PrefixValid(repair.before, StartFromIdOf(repair.body)))
                => ValidUpTo(ledger, repair.updates[repair.repaired].id)
    /\ \A i \in 1..Len(runs) :
          (/\ runs[i].body.dryRun = "false"
           /\ runs[i].repaired >= 1
           /\ PrefixValid(runs[i].before, runs[i].startFromId))
              => ValidUpTo(runs[i].after, runs[i].updates[runs[i].repaired].id)

\* A run that stopped after the first of two updates, on a valid prefix, with
\* the rest of the ledger still failing verification
C20_Witness ==
    \E i \in 1..Len(runs) :
        /\ runs[i].body.dryRun = "false"
        /\ ~runs[i].response.success
        /\ runs[i].repaired = 1
        /\ Len(runs[i].updates) = 2
        /\ PrefixValid(runs[i].before, runs[i].startFromId)
        /\ ~verifyChain(runs[i].after).valid

\* C21: a run of the repair endpoint with dryRun=false may interleave with
\* addBlockchainLog calls: once the run has answered success and every call
\* has returned, verifyChain reports valid: true, when the entries before
\* startFromId formed a valid chain at the run's read and the entry at
\* startFromId - 1 existed.
C21_RepairAmongAppendsVerifies ==
    (/\ Returned = Procs
     /\ Len(runs) = 1
     /\ runs[1].response.success
     /\ RowsWithId(runs[1].before, runs[1].startFromId - 1) # {}
     /\ PrefixValid(runs[1].before, runs[1].startFromId))
        => verifyChain(ledger).valid

\* C22: whenever the start id is <= 1 or no entry has id = start id - 1, the
\* repair endpoint answers with an error and leaves the table as it was,
\* whether or not there are entries at or after the start id.
C22_NoAnchorIsAnError ==
    \A i \in 1..Len(runs) :
        (\/ runs[i].startFromId <= 1
         \/ RowsWithId(runs[i].before, runs[i].startFromId - 1) = {})
            => /\ ~runs[i].response.success
               /\ runs[i].after = runs[i].before

\* The columns of a row other than prev_hash and block_hash
KeptColumns(r) ==
    <<r.id, r.action, r.actor_name, r.target_type, r.target_name, r.result, r.details,
      r.timestamp>>

\* Table after has the rows of table before, none more and none less, each
\* with its columns other than prev_hash and block_hash as they were, and each
\* row with id < startFromId as it was
OnlyHashesFrom(before, after, startFromId) ==
    /\ {r.id : r \in after} = {r.id : r \in before}
    /\ Cardinality(after) = Cardinality(before)
    /\ \A r \in before : \E a \in after :
          /\ KeptColumns(a) = KeptColumns(r)
          /\ r.id < startFromId => a = r

\* C23: the repair endpoint inserts and deletes no row and changes no column
\* but prev_hash and block_hash, and those only of rows with id >= startFromId,
\* at every point of a run and in every run that has answered.
C23_RepairWritesOnlyHashes ==
    /\ repair.pc = "apply" =>
          OnlyHashesFrom(repair.before, ledger, StartFromIdOf(repair.body))
    /\ \A i \in 1..Len(runs) :
          OnlyHashesFrom(runs[i].before, runs[i].after, runs[i].startFromId)

\* A run from id 3 on three entries that has rewritten the third
C23_Witness ==
    \E i \in 1..Len(runs) :
        /\ runs[i].startFromId = 3
        /\ Cardinality(runs[i].before) = 3
        /\ runs[i].repaired = 1
        /\ runs[i].after # runs[i].before

\* Calls p and q of the plain addBlockchainLog have both read the same latest
\* hash and both returned success
PlainPairOnOneHash(p, q) ==
    /\ p # q
    /\ {pc[p], pc[q]} \subseteq {"respond", "done"}
    /\ \E r \in ret[p] : r.success
    /\ \E r \in ret[q] : r.success
    /\ prevHash[p] = prevHash[q]

\* C24: whenever two calls of the plain addBlockchainLog have read the same
\* latest hash and both returned success, the ledger holds an entry of each
\* with the same prev_hash, and verifyChain reports valid: false; and two
\* concurrent calls can do so.
C24_PlainPairForks ==
    \A p, q \in Procs :
        PlainPairOnOneHash(p, q) =>
            /\ \E a \in EntriesOf(p) : \E b \in EntriesOf(q) :
                  a # b /\ a.prev_hash = b.prev_hash
            /\ ~Plain_verifyChain(ledger).valid

\* Two calls that ran together have done so
C24_Witness ==
    \E p, q \in Procs :
        /\ PlainPairOnOneHash(p, q)
        /\ Cardinality(ledger) = 2
        /\ ~Plain_verifyChain(ledger).valid

\* No two rows of the table have the same block_hash
DistinctHashes(rows) ==
    \A a, b \in rows : a.block_hash = b.block_hash => a = b

\* C25: all ledger entries have pairwise distinct block_hash values at every
\* step; an INSERT of addBlockchainLog whose block_hash is that of an existing
\* row leaves the ledger unchanged, consumes one attempt and is retried (on
\* the last attempt the call returns the failure); an UPDATE of the repair
\* endpoint whose block_hash is that of another row leaves the ledger
\* unchanged and ends the run with an error.
C25_HashesStayDistinct ==
    [][/\ DistinctHashes(ledger')
       /\ \A p \in Procs :
             (/\ pc[p] = "insert"
              /\ pc'[p] # "insert"
              /\ UniqueViolation(ledger, blockHash[p]))
                 => /\ ledger' = ledger
                    /\ \/ attempt'[p] = attempt[p] + 1 /\ pc'[p] = "fetch"
                       \/ /\ attempt[p] = MAX_RETRIES - 1
                          /\ pc'[p] = "done"
                          /\ \A r \in ret'[p] : ~r.success
       /\ (/\ repair.pc = "apply"
           /\ repair' # repair
           /\ repair.repaired < Len(repair.updates)
           /\ UpdateRejected(ledger, repair.updates[repair.repaired + 1]))
              => /\ ledger' = ledger
                 /\ ~runs'[Len(runs')].response.success]_vars

\* An INSERT of a call has been rejected and retried, and an UPDATE of the
\* repair run has been rejected
C25_Witness ==
    /\ \E p \in Procs : first[p] # {} /\ FirstHow(p) = "unique" /\ attempt[p] > 0
    /\ runs # <<>>
    /\ Rejected(runs[1])
    /\ runs[1].response.status = 500

\* C26: with only addBlockchainLog calls running, no entry that has been
\* inserted is ever updated or deleted: every row of the ledger is there,
\* unchanged, after every step.
C26_AppendOnly ==
    [][\A r \in ledger : r \in ledger']_vars

\* C26 as amended: with only addBlockchainLog calls running, no entry is ever
\* updated, and an entry leaves the ledger only by the rollback of the call
\* that inserted it, in the attempt that inserted it; an entry whose call has
\* returned is never deleted.
C26_OnlyOwnRollbackDeletes ==
    [][/\ \A r \in ledger : \A a \in ledger' : a.id = r.id => a = r
       /\ \A r \in ledger \ ledger' :
             \E p \in Procs :
                 /\ pc[p] = "delete"
                 /\ pc'[p] # "delete"
                 /\ <<r.id, p>> \in wrote
                 /\ r.block_hash = blockHash[p]
       /\ \A r \in ledger \ ledger' : \A q \in Returned : <<r.id, q>> \notin wrote]_vars

\* A call has rolled back an entry of its own and has then returned success
C26_Witness ==
    \E p \in Succeeded : \E w \in wrote :
        /\ w[2] = p
        /\ RowsWithId(ledger, w[1]) = {}
        /\ EntriesOf(p) # {}

\* What C27 says of a page g that getLogs returned on rows for options o:
\* only rows matching every supplied filter, in descending id order, the
\* i-th of them the (offset + i)-th matching row, at most min(limit, 100) of
\* them with limit 50 when none is given, and total the number of matching rows
PageMeets(g, rows, o) ==
    LET matching == {r \in rows :
                        /\ Truthy(o.action) => r.action = o.action
                        /\ Truthy(o.actorName) => r.actor_name = o.actorName
                        /\ Truthy(o.targetType) => r.target_type = o.targetType}
        cap == Min(IF o.limit = 0 THEN DEFAULT_LIMIT ELSE o.limit, MAX_LIMIT)
    IN /\ \A i \in 1..Len(g.logs) : g.logs[i] \in matching
       /\ \A i \in 1..Len(g.logs) : \A j \in 1..Len(g.logs) :
             i < j => g.logs[i].id > g.logs[j].id
       /\ \A i \in 1..Len(g.logs) :
             Cardinality({r \in matching : r.id > g.logs[i].id}) = o.offset + i - 1
       /\ Len(g.logs) <= (IF cap < 0 THEN 0 ELSE cap)
       /\ g.total = Cardinality(matching)

\* C27: getLogs returns only entries matching every supplied filter, in
\* descending id order, at most min(limit, 100) of them (limit defaulting to
\* 50) starting at the given offset, and its total is the number of all
\* matching entries.
C27_GetLogsContract ==
    [][\A o \in GetLogsOptions :
          GetLogs(o) => \A g \in page' : PageMeets(g, ledger, o)]_vars

\* The same for the calls that give no limit or a positive one
C27_GetLogsContractPositiveLimit ==
    [][\A o \in GetLogsOptions :
          GetLogs(o) /\ o.limit >= 0 => \A g \in page' : PageMeets(g, ledger, o)]_vars

\* Entry b follows, in rows, an entry whose block_hash is b's prev_hash: the
\* entry of rows with the greatest id below b's, when there is one
LinkedToPredecessor(rows, b) ==
    LET earlier == {r \in rows : r.id < b.id}
    IN earlier # {} => LastRow(earlier).block_hash = b.prev_hash

\* C28: a call returns success for its entry only if, at its post-insert link
\* check, the remaining entry with the greatest smaller id had block_hash
\* equal to the new entry's prev_hash; in every other case the call goes on
\* to delete the new entry and retry.
C28_SuccessOnlyWhenLinked ==
    [][\A p \in Procs :
          /\ pc[p] \in {"selectInserted", "selectPrev"}
          /\ pc'[p] # pc[p]
          /\ insertedBlock'[p] # {}
          => IF \A b \in insertedBlock'[p] : LinkedToPredecessor(ledger, b)
             THEN pc'[p] \in {"selectPrev", "done"}
             ELSE pc'[p] = (IF pc[p] = "selectPrev" THEN "delete" ELSE "selectPrev")]_vars

\* C29: the race rollback never orphans a successor: the entry it deletes is
\* not one whose block_hash is the prev_hash of another entry, nor one that a
\* call which is about to insert has read as the latest hash.
C29_RollbackOrphansNone ==
    [][\A r \in ledger \ ledger' :
          /\ \A o \in ledger' : o.prev_hash # r.block_hash
          /\ \A q \in Procs : pc[q] = "insert" => prevHash[q] # r.block_hash]_vars

\* C30: with only addBlockchainLog calls running, verifyChain called at any
\* moment, also while a call is between its INSERT and its link check or
\* rollback, reports valid: true.
C30_VerifyAmongAppendsValid ==
    \A v \in report : v.result.valid

\* The hashed fields of the contract: result is not among them
ClaimedFields == {"action", "actor_name", "target_type", "target_name", "details",
                  "timestamp", "prev_hash", "block_hash"}

\* C5: a different value stored out-of-band in a hashed field of entry k of a
\* valid ledger makes verifyChain report valid: false with invalidAt = k.
C5_TamperDetected ==
    (tampered.kind = "update" /\ tampered.field \in ClaimedFields) =>
        /\ ~verifyChain(ledger).valid
        /\ verifyChain(ledger).invalidAt = tampered.id

\* An optional field changed between NULL and the empty string
NullToEmpty == {tampered.old, tampered.new} = {Null, ""}

\* What verifyChain does detect: every such change except one between NULL and
\* the empty string in an optional field, which the hash does not tell apart.
TamperDetectedButNullEmpty ==
    (tampered.kind = "update" /\ tampered.field \in ClaimedFields /\ ~NullToEmpty) =>
        /\ ~verifyChain(ledger).valid
        /\ verifyChain(ledger).invalidAt = tampered.id

TamperedMiddleEntry ==
    /\ tampered.kind = "update"
    /\ tampered.field = "details"
    /\ tampered.id = 2
    /\ Cardinality(ledger) = 3
    /\ ~NullToEmpty

\* C6: deleting any one entry (first, middle or last) of a valid non-empty
\* ledger out-of-band makes verifyChain report valid: false.
C6_DeletionDetected ==
    (tampered.kind = "delete") => ~verifyChain(ledger).valid

\* What verifyChain does detect: the deletion of any entry but the last one.
DeletionButLastDetected ==
    (tampered.kind = "delete" /\ ~tampered.wasLast) => ~verifyChain(ledger).valid

DeletedInnerEntry ==
    /\ tampered.kind = "delete"
    /\ ~tampered.wasLast
    /\ \E r \in ledger : r.id < tampered.id

\* C7: when addBlockchainLog has returned success: false to a producer (domain
\* suspend, activate or delete, appeal approve or reject), the producer does
\* not answer its caller with a success response.
C7_AppendFailurePropagates ==
    \A p \in Procs :
        (response[p] # {} /\ \E r \in ret[p] : ~r.success)
            => \A s \in response[p] : ~s.success

\* C8: every user ban or unban, admin grant or revoke and settings update that
\* the admin API completed with a success response has appended one entry to
\* the ledger.
C8_SensitiveTransitionsAppend ==
    \A p \in Procs :
        (request[p].handler \in {"users", "settings"} /\ successResponse \in response[p])
            => Cardinality(EntriesOf(p)) = 1

\* C9: a call makes at most MAX_RETRIES attempts and INSERTs, can always take
\* its next step until it returns, returns a result, and returns
\* success: false, with an error message, when its last attempt failed.
C9_BoundedAttempts ==
    \A p \in Procs :
        /\ attempt[p] < MAX_RETRIES
        /\ inserts[p] <= MAX_RETRIES
        /\ inserts[p] <= attempt[p] + 1
        /\ p \in InFlight => ENABLED Step(p)
        /\ p \in Returned =>
              /\ Cardinality(ret[p]) = 1
              /\ \A r \in ret[p] :
                    ~r.success => (attempt[p] = MAX_RETRIES - 1 /\ r.error # "")

C9_Witness ==
    \E p \in Returned : \E r \in ret[p] :
        /\ ~r.success
        /\ r.error = "Max retries reached due to race conditions"
        /\ inserts[p] = MAX_RETRIES

\* C10: after a call returns success the ledger holds exactly one entry
\* written by it, and after it returns success: false none.
C10_ExactlyOnce ==
    \A p \in Returned : \A r \in ret[p] :
        IF r.success THEN Cardinality(EntriesOf(p)) = 1 ELSE EntriesOf(p) = {}

====
